---- MODULE Spec2Model ----
(***************************************************************************)
(* Model of znbt's `kind` module (src/src/kind.rs): the enum `Kind` of the *)
(* twelve NBT type IDs, the checked constructor `Kind::new`, the unchecked *)
(* constructor `Kind::new_unchecked`, `TryFrom<u8>` and `NbtKindError`.    *)
(*                                                                         *)
(* Callers invoke the constructors with arbitrary bytes.  Every call is    *)
(* executed step by step (forward, range check, debug assertion,           *)
(* transmute, return) on the caller's own locals.  Transmuting a byte that *)
(* is no discriminant of `Kind` is undefined behaviour and is modelled as  *)
(* a nondeterministic choice of the value obtained.                        *)
(***************************************************************************)
EXTENDS Integers, Sequences, FiniteSets, TLC

\* Number of callers (threads) that may use the type.
NumCallers == 2

Callers == 1..NumCallers

\* The values of a `u8`.
U8 == 0..255

\* The bytes the callers draw from when their calls interleave: the end
\* marker, both ends of the valid range, one past it, and the largest byte.
ConcBytes == {0, 1, 12, 13, 255}

VARIABLES
    debug_assertions,   \* build configuration: is `debug_assert!` compiled in
    pc,                 \* pc[c]: where caller c is in its current call
    entry,              \* entry[c]: the function caller c invoked
    arg,                \* arg[c]: the byte passed (`kind` / `value`)
    ret                 \* ret[c]: what the call returned to caller c

vars == <<debug_assertions, pc, entry, arg, ret>>

----------------------------------------------------------------------------
\* The enum `Kind`

\* The variants in declaration order.
KindDecl == <<"Byte", "Short", "Int", "Long", "Float", "Double", "ByteArray",
              "String", "List", "Compound", "IntArray", "LongArray">>

KindVariants == {KindDecl[i] : i \in 1..Len(KindDecl)}

\* Mutant: the explicit discriminants dropped, variants numbered from 0.
DiscrZeroBased == [v \in KindVariants |->
                     CHOOSE i \in 0..(Len(KindDecl) - 1) : KindDecl[i + 1] = v]

\* Mutant: the discriminants of Int and Long exchanged.
DiscrSwapped ==
    [Byte |-> 1, Short |-> 2, Int |-> 4, Long |-> 3, Float |-> 5,
     Double |-> 6, ByteArray |-> 7, String |-> 8, List |-> 9,
     Compound |-> 10, IntArray |-> 11, LongArray |-> 12]

\* The explicit discriminant of every variant (`Byte = 0x01`, ...).
Discr ==
    [Byte |-> 1, Short |-> 2, Int |-> 3, Long |-> 4, Float |-> 5,
     Double |-> 6, ByteArray |-> 7, String |-> 8, List |-> 9,
     Compound |-> 10, IntArray |-> 11, LongArray |-> 12]

\* A `Kind` whose byte is no discriminant (only undefined behaviour makes one).
InvalidKind == "<invalid>"

\* `k as u8` on the `repr(u8)` enum: the discriminant of the variant.
AsU8(k) == Discr[k]

\* derive(PartialEq, Eq): two values are equal iff their discriminants are.
KindEq(a, b) == Discr[a] = Discr[b]

\* Mutant: the order reversed.
KindLtReversed(a, b) == Discr[a] > Discr[b]

\* derive(PartialOrd, Ord): values are ordered by discriminant.
KindLt(a, b) == Discr[a] < Discr[b]

----------------------------------------------------------------------------
\* `NbtKindError` and the results of calls

\* `NbtKindError(())`: the only field is the unit value.
NbtKindError == [payload |-> <<>>]

\* The grave accent U+0060, which a TLA+ string cannot hold.
Grave == "U+0060"

\* The text `write_str` is given, cut at the grave accents.
Message == <<"cannot convert from ", Grave, "u8", Grave, " into ", Grave,
             "Kind", Grave, ", value out of range">>

\* impl Display for NbtKindError: the fixed text, `self` is not read.
Display(e) == Message

NoResult == [tag |-> "None", kind |-> <<>>, err |-> <<>>]
Ok(k) == [tag |-> "Ok", kind |-> <<k>>, err |-> <<>>]
Err(e) == [tag |-> "Err", kind |-> <<>>, err |-> <<e>>]
\* A bare `Kind`, as `new_unchecked` returns it.
Value(k) == [tag |-> "Kind", kind |-> <<k>>, err |-> <<>>]
\* The call did not return: the thread panicked.
Panic == [tag |-> "Panic", kind |-> <<>>, err |-> <<>>]

----------------------------------------------------------------------------
\* The pieces of the constructors

\* Mutant: the upper limit off by one.
RangeCheckUpTo13(kind) == 1 <= kind /\ kind <= 13

\* Mutant: the lower limit forgotten.
RangeCheckNoLower(kind) == kind <= 12

\* Mutant: the upper limit exclusive.
RangeCheckBelow12(kind) == 1 <= kind /\ kind < 12

\* `if 1 <= kind && kind <= 12` in `Kind::new`.
RangeCheck(kind) == 1 <= kind /\ kind <= 12

\* Mutant: the error keeps the rejected byte.
NewErrKeepsByte(kind) == Err([payload |-> <<kind>>])

\* The else branch of `Kind::new`: `Err(NbtKindError(()))`.
NewErr(kind) == Err(NbtKindError)

\* Mutant: the assertion excludes 12.
DebugAssertCondBelow12(kind) == 1 <= kind /\ kind < 12

\* The condition of `debug_assert!` in `Kind::new_unchecked`.
DebugAssertCond(kind) == 1 <= kind /\ kind <= 12

\* `mem::transmute::<u8, Kind>(kind)`: the variant whose discriminant is
\* `kind`; for any other byte the behaviour is undefined, the value read
\* back may be any variant or none.
Transmute(kind) ==
    IF \E v \in KindVariants : Discr[v] = kind
    THEN {v \in KindVariants : Discr[v] = kind}
    ELSE KindVariants \cup {InvalidKind}

\* `Kind::new_unchecked(kind)`: the set of outcomes of one call.
KindNewUnchecked(kind, dbg) ==
    IF dbg /\ ~DebugAssertCond(kind)
    THEN {Panic}
    ELSE {Value(v) : v \in Transmute(kind)}

\* `Kind::new(kind)`: the set of outcomes of one call.
KindNew(kind, dbg) ==
    IF RangeCheck(kind)
    THEN {IF r.tag = "Panic" THEN r ELSE Ok(r.kind[1]) :
            r \in KindNewUnchecked(kind, dbg)}
    ELSE {NewErr(kind)}

\* `<Kind as TryFrom<u8>>::try_from(value)`: the set of outcomes of one call.
TryFrom(value, dbg) == KindNew(value, dbg)

----------------------------------------------------------------------------
\* The state machine

TypeOK ==
    /\ debug_assertions \in BOOLEAN
    /\ pc \in [Callers -> {"idle", "try_from", "new", "new_unchecked",
                           "transmute", "returned", "panicked"}]
    /\ entry \in [Callers -> {"none", "try_from", "new", "new_unchecked"}]
    /\ arg \in [Callers -> U8]
    /\ \A c \in Callers : ret[c].tag \in {"None", "Ok", "Err", "Kind", "Panic"}

Init ==
    /\ debug_assertions \in BOOLEAN
    /\ pc = [c \in Callers |-> "idle"]
    /\ entry = [c \in Callers |-> "none"]
    /\ arg = [c \in Callers |-> 0]
    /\ ret = [c \in Callers |-> NoResult]

\* Caller c invokes function f with byte b.
Invoke(c, f, b) ==
    /\ pc[c] = "idle"
    /\ pc' = [pc EXCEPT ![c] = f]
    /\ entry' = [entry EXCEPT ![c] = f]
    /\ arg' = [arg EXCEPT ![c] = b]
    /\ UNCHANGED <<debug_assertions, ret>>

CallNew(c, b) == Invoke(c, "new", b)

CallTryFrom(c, b) == Invoke(c, "try_from", b)

CallNewUnchecked(c, b) == Invoke(c, "new_unchecked", b)

\* Mutant: try_from skips the check.
TryFromForwardUnchecked(c) ==
    /\ pc[c] = "try_from"
    /\ pc' = [pc EXCEPT ![c] = "new_unchecked"]
    /\ UNCHANGED <<debug_assertions, entry, arg, ret>>

\* try_from: `Kind::new(value)`.
TryFromForward(c) ==
    /\ pc[c] = "try_from"
    /\ pc' = [pc EXCEPT ![c] = "new"]
    /\ UNCHANGED <<debug_assertions, entry, arg, ret>>

\* new: the range check holds, `Kind::new_unchecked(kind)` is called.
NewInRange(c) ==
    /\ pc[c] = "new"
    /\ RangeCheck(arg[c])
    /\ pc' = [pc EXCEPT ![c] = "new_unchecked"]
    /\ UNCHANGED <<debug_assertions, entry, arg, ret>>

\* new: the range check fails, the error is returned.
NewOutOfRange(c) ==
    /\ pc[c] = "new"
    /\ ~RangeCheck(arg[c])
    /\ pc' = [pc EXCEPT ![c] = "returned"]
    /\ ret' = [ret EXCEPT ![c] = NewErr(arg[c])]
    /\ UNCHANGED <<debug_assertions, entry, arg>>

\* new_unchecked: `debug_assert!` passes or is compiled out.
DebugAssertPass(c) ==
    /\ pc[c] = "new_unchecked"
    /\ ~debug_assertions \/ DebugAssertCond(arg[c])
    /\ pc' = [pc EXCEPT ![c] = "transmute"]
    /\ UNCHANGED <<debug_assertions, entry, arg, ret>>

\* new_unchecked: `debug_assert!` fires, the caller panics.
DebugAssertFail(c) ==
    /\ pc[c] = "new_unchecked"
    /\ debug_assertions /\ ~DebugAssertCond(arg[c])
    /\ pc' = [pc EXCEPT ![c] = "panicked"]
    /\ ret' = [ret EXCEPT ![c] = Panic]
    /\ UNCHANGED <<debug_assertions, entry, arg>>

\* Mutant: the converted value goes through a slot all callers share.
TransmuteReturnShared(c) ==
    /\ pc[c] = "transmute"
    /\ \E v \in Transmute(arg[c]) :
         ret' = [d \in Callers |->
                   IF d = c \/ pc[d] = "transmute"
                   THEN IF entry[d] = "new_unchecked" THEN Value(v) ELSE Ok(v)
                   ELSE ret[d]]
    /\ pc' = [pc EXCEPT ![c] = "returned"]
    /\ UNCHANGED <<debug_assertions, entry, arg>>

\* new_unchecked: `mem::transmute(kind)` and return; `new` wraps the value
\* in `Ok`.
TransmuteReturn(c) ==
    /\ pc[c] = "transmute"
    /\ \E v \in Transmute(arg[c]) :
         ret' = [ret EXCEPT ![c] =
                   IF entry[c] = "new_unchecked" THEN Value(v) ELSE Ok(v)]
    /\ pc' = [pc EXCEPT ![c] = "returned"]
    /\ UNCHANGED <<debug_assertions, entry, arg>>

\* The caller drops the result and is ready for its next call.
Drop(c) ==
    /\ pc[c] = "returned"
    /\ pc' = [pc EXCEPT ![c] = "idle"]
    /\ entry' = [entry EXCEPT ![c] = "none"]
    /\ arg' = [arg EXCEPT ![c] = 0]
    /\ ret' = [ret EXCEPT ![c] = NoResult]
    /\ UNCHANGED debug_assertions

\* One step inside a call of caller c.
Step(c) ==
    \/ TryFromForward(c)
    \/ NewInRange(c)
    \/ NewOutOfRange(c)
    \/ DebugAssertPass(c)
    \/ DebugAssertFail(c)
    \/ TransmuteReturn(c)

\* The caller of a single-threaded program.
Main == CHOOSE c \in Callers : TRUE

\* A single-threaded program: calls are made one after another, with any byte.
Next ==
    \/ \E b \in U8 : CallNew(Main, b)
    \/ \E b \in U8 : CallTryFrom(Main, b)
    \/ \E b \in U8 : CallNewUnchecked(Main, b)
    \/ Step(Main)
    \/ Drop(Main)

Spec == Init /\ [][Next]_vars

\* Every call that was started keeps running.
SpecFair == Spec /\ \A c \in Callers : WF_vars(Step(c))

\* Concurrent callers: the steps of their calls interleave freely.
NextConc ==
    \E c \in Callers :
        \/ \E b \in ConcBytes : CallNew(c, b)
        \/ \E b \in ConcBytes : CallTryFrom(c, b)
        \/ \E b \in ConcBytes : CallNewUnchecked(c, b)
        \/ Step(c)
        \/ Drop(c)

SpecConc == Init /\ [][NextConc]_vars

----------------------------------------------------------------------------
\* Properties

ValidBytes == 1..12

\* Caller c holds the result of a call of f.
Returned(c, f) == pc[c] = "returned" /\ entry[c] = f

\* C1: for every byte b in 0..255, Kind::new(b) succeeds if and only if
\* 1 <= b <= 12; for b = 0 and for every b in 13..255 it fails with the
\* out-of-range error NbtKindError.
C1_NewSucceedsIffInRange ==
    \A c \in Callers :
        /\ (entry[c] = "new" /\ pc[c] \in {"returned", "panicked"}) =>
              /\ ret[c].tag \in {"Ok", "Err"}
              /\ ret[c].tag = "Ok" <=> arg[c] \in ValidBytes
              /\ ret[c].tag = "Err" => ret[c].err = <<NbtKindError>>
        /\ (entry[c] = "new" /\ pc[c] = "transmute") => arg[c] \in ValidBytes

C1_Witness ==
    \E c \in Callers :
        /\ Returned(c, "new")
        /\ arg[c] = 13
        /\ ret[c] = Err(NbtKindError)

\* The table of the format: byte -> discriminant.
FormatTable ==
    <<"Byte", "Short", "Int", "Long", "Float", "Double", "ByteArray",
      "String", "List", "Compound", "IntArray", "LongArray">>

\* C2: for every byte b in 1..12, Kind::new(b) returns the discriminant the
\* format table assigns to b (1=Byte, 2=Short, 3=Int, 4=Long, 5=Float,
\* 6=Double, 7=ByteArray, 8=String, 9=List, 10=Compound, 11=IntArray,
\* 12=LongArray), and the assignment is one-to-one: different valid bytes
\* never give the same discriminant and every discriminant has a byte.
C2_NewFollowsFormatTable ==
    /\ \A c \in Callers :
          (Returned(c, "new") /\ arg[c] \in ValidBytes) =>
              ret[c] = Ok(FormatTable[arg[c]])
    /\ \A c \in Callers :
          (Returned(c, "new") /\ ret[c].tag = "Ok") =>
              \A b \in ValidBytes \ {arg[c]} :
                  \A r \in KindNew(b, debug_assertions) :
                      r.tag = "Ok" /\ r.kind # ret[c].kind
    /\ \A v \in KindVariants :
          \E b \in ValidBytes : Ok(v) \in KindNew(b, debug_assertions)

C2_Witness ==
    \E c \in Callers :
        /\ Returned(c, "new")
        /\ arg[c] = 10
        /\ ret[c] = Ok("Compound")

\* C3: round trip: for every valid discriminant d, Kind::new applied to the
\* raw byte of d succeeds and gives back d, and for every byte b in 1..12 the
\* raw byte of Kind::new(b) is b; the raw-byte projection is total.
C3_RoundTrip ==
    /\ \A c \in Callers :
          (Returned(c, "new") /\ arg[c] \in ValidBytes) =>
              /\ ret[c].tag = "Ok"
              /\ ret[c].kind[1] \in KindVariants
              /\ AsU8(ret[c].kind[1]) = arg[c]
    /\ \A c \in Callers : \A d \in KindVariants :
          (entry[c] = "new" /\ pc[c] \in {"returned", "panicked"}
             /\ arg[c] = AsU8(d)) => ret[c] = Ok(d)
    /\ \A d \in KindVariants : AsU8(d) \in U8

C3_Witness ==
    \E c \in Callers :
        /\ Returned(c, "new")
        /\ arg[c] = AsU8("LongArray")
        /\ ret[c] = Ok("LongArray")
        /\ AsU8(ret[c].kind[1]) = 12

RECURSIVE SortKinds(_)
\* The kinds of set S in ascending order of KindLt.
SortKinds(S) ==
    IF S = {} THEN <<>>
    ELSE LET m == CHOOSE x \in S : \A y \in S \ {x} : KindLt(x, y)
         IN  <<m>> \o SortKinds(S \ {m})

\* The kinds Kind::new builds from the valid bytes.
BuiltKinds ==
    {r.kind[1] : r \in UNION {KindNew(b, debug_assertions) : b \in ValidBytes}}

\* C4: the order on Kind is the ascending order of the raw byte: for valid
\* bytes b1 < b2, Kind::new(b1) < Kind::new(b2); sorting the kinds built from
\* 1..12 gives Byte < Short < Int < Long < Float < Double < ByteArray <
\* String < List < Compound < IntArray < LongArray; and two kinds are equal
\* exactly when their raw bytes are equal.
C4_OrderIsByteOrder ==
    /\ \A c \in Callers :
          (Returned(c, "new") /\ ret[c].tag = "Ok") =>
              \A b2 \in ValidBytes : \A r \in KindNew(b2, debug_assertions) :
                  /\ r.tag = "Ok"
                  /\ arg[c] < b2 <=> KindLt(ret[c].kind[1], r.kind[1])
                  /\ arg[c] = b2 <=> KindEq(ret[c].kind[1], r.kind[1])
                  /\ KindEq(ret[c].kind[1], r.kind[1])
                        <=> AsU8(ret[c].kind[1]) = AsU8(r.kind[1])
    /\ (\E c \in Callers : Returned(c, "new") /\ ret[c].tag = "Ok") =>
          SortKinds(BuiltKinds) =
              <<"Byte", "Short", "Int", "Long", "Float", "Double",
                "ByteArray", "String", "List", "Compound", "IntArray",
                "LongArray">>

C4_Witness ==
    \E c \in Callers :
        /\ Returned(c, "new")
        /\ arg[c] = 6
        /\ ret[c] = Ok("Double")
        /\ KindLt("Double", "ByteArray")

\* C5: for every byte b in 1..12, Kind::new_unchecked(b) yields a value
\* identical by raw byte, equality and order to the value of Kind::new(b),
\* and its debug assertion does not fire.
C5_UncheckedAgreesWithChecked ==
    \A c \in Callers :
        (entry[c] = "new_unchecked" /\ arg[c] \in ValidBytes) =>
            /\ pc[c] # "panicked"
            /\ pc[c] = "new_unchecked" => DebugAssertCond(arg[c])
            /\ pc[c] = "returned" =>
                  /\ ret[c].tag = "Kind"
                  /\ ret[c].kind[1] \in KindVariants
                  /\ \A r \in KindNew(arg[c], debug_assertions) :
                        /\ r.tag = "Ok"
                        /\ r.kind[1] \in KindVariants
                        /\ AsU8(r.kind[1]) = AsU8(ret[c].kind[1])
                        /\ KindEq(r.kind[1], ret[c].kind[1])
                        /\ ~KindLt(r.kind[1], ret[c].kind[1])
                        /\ ~KindLt(ret[c].kind[1], r.kind[1])

C5_Witness ==
    \E c \in Callers :
        /\ Returned(c, "new_unchecked")
        /\ debug_assertions
        /\ arg[c] = 12
        /\ ret[c] = Value("LongArray")

\* C6: every Kind produced by calls of the safe constructors (Kind::new,
\* try_from) with arbitrary bytes has a raw byte in 1..12 and is one of the
\* twelve variants; no Kind with raw byte 0 is ever produced.
C6_SafeKindsAreValid ==
    \A c \in Callers :
        (entry[c] \in {"new", "try_from"} /\ ret[c].kind # <<>>) =>
            /\ ret[c].kind[1] \in KindVariants
            /\ AsU8(ret[c].kind[1]) \in ValidBytes
            /\ AsU8(ret[c].kind[1]) # 0

C6_Witness ==
    \E c \in Callers :
        /\ Returned(c, "try_from")
        /\ arg[c] = 1
        /\ ret[c] = Ok("Byte")

\* A call of a safe constructor is running.
InSafeCall(c) ==
    /\ entry[c] \in {"new", "try_from"}
    /\ pc[c] \in {"try_from", "new", "new_unchecked", "transmute"}

\* C7: checked construction never panics or aborts: for every byte b,
\* Kind::new(b) terminates returning Ok(kind) or Err(NbtKindError) as a
\* value, and the assertion in new_unchecked (1 <= kind <= 12) is never
\* violated on a call that reaches new_unchecked through Kind::new.
C7_NewNeverPanics ==
    /\ [](\A c \in Callers :
            entry[c] \in {"new", "try_from"} =>
                /\ pc[c] # "panicked"
                /\ ret[c].tag # "Panic"
                /\ pc[c] = "new_unchecked" => DebugAssertCond(arg[c])
                /\ pc[c] = "returned" =>
                      \/ ret[c].tag = "Ok" /\ ret[c].kind[1] \in KindVariants
                      \/ ret[c] = Err(NbtKindError))
    /\ \A c \in Callers :
          InSafeCall(c) ~> (pc[c] = "returned" /\ ret[c].tag \in {"Ok", "Err"})

C7_Witness ==
    \E c \in Callers :
        /\ entry[c] = "new"
        /\ pc[c] = "new_unchecked"
        /\ debug_assertions
        /\ arg[c] = 12

\* C8: the error does not depend on the rejected byte: for out-of-range
\* bytes b1 and b2 the errors of Kind::new(b1) and Kind::new(b2) are
\* indistinguishable and display the same fixed message, which embeds no
\* numeric payload.
C8_ErrorIndependentOfByte ==
    \A c \in Callers :
        (Returned(c, "new") /\ arg[c] \notin ValidBytes) =>
            /\ ret[c].tag = "Err"
            /\ ret[c].err[1].payload = <<>>
            /\ Display(ret[c].err[1]) = Message
            /\ \A b2 \in U8 \ ValidBytes :
                  \A r \in KindNew(b2, debug_assertions) :
                      /\ r.tag = "Err"
                      /\ r.err = ret[c].err
                      /\ Display(r.err[1]) = Display(ret[c].err[1])

C8_Witness ==
    \E c \in Callers :
        /\ Returned(c, "new")
        /\ arg[c] = 255
        /\ ret[c].tag = "Err"
        /\ Display(ret[c].err[1]) = Message

\* C9: try_from has the same functionality as Kind::new: for every byte b,
\* Kind::try_from(b) and Kind::new(b) either both succeed with the same
\* discriminant or both fail with NbtKindError.
C9_TryFromSameAsNew ==
    \A c \in Callers :
        (entry[c] = "try_from" /\ pc[c] \in {"returned", "panicked"}) =>
            /\ ret[c].tag \in {"Ok", "Err"}
            /\ \A r \in KindNew(arg[c], debug_assertions) :
                  /\ r.tag = ret[c].tag
                  /\ r.kind = ret[c].kind
                  /\ r.tag = "Err" =>
                        r.err = <<NbtKindError>> /\ ret[c].err = <<NbtKindError>>

C9_Witness ==
    \E c \in Callers :
        /\ Returned(c, "try_from")
        /\ arg[c] = 0
        /\ ret[c] = Err(NbtKindError)

\* What a call of f with byte b can give when it is made alone.
AloneOutcomes(f, b) ==
    CASE f = "new" -> KindNew(b, debug_assertions)
      [] f = "try_from" -> TryFrom(b, debug_assertions)
      [] f = "new_unchecked" -> KindNewUnchecked(b, debug_assertions)

\* The locals of caller c.
Locals(c) == <<pc[c], entry[c], arg[c], ret[c]>>

\* C10: both constructors are pure functions of their input byte: with any
\* number of concurrent callers and under any interleaving, the result of
\* each call is a result of the same call made alone, and no call changes
\* state of another caller or of the process.
C10_PureUnderInterleaving ==
    /\ [](\A c \in Callers :
            pc[c] \in {"returned", "panicked"} =>
                ret[c] \in AloneOutcomes(entry[c], arg[c]))
    /\ [][/\ debug_assertions' = debug_assertions
          /\ \E c \in Callers :
                \A d \in Callers \ {c} : Locals(d)' = Locals(d)]_vars

C10_Witness ==
    \E c, d \in Callers :
        /\ c # d
        /\ Returned(c, "new")
        /\ arg[c] = 12
        /\ ret[c] = Ok("LongArray")
        /\ pc[d] = "transmute"
        /\ entry[d] = "try_from"
        /\ arg[d] = 1

====
